---- MODULE Spec2Model ----
(***************************************************************************)
(* A model of src/scraping.py: the PokemonScraping object, its methods and *)
(* the __main__ script that drives them.                                   *)
(*                                                                         *)
(* Text is a sequence of characters: a character is a one-character        *)
(* string, or the string "U+XXXX" naming a code point for which TLA+ has   *)
(* no escape. An optional value (Python None or a value) is a sequence of length 0 or *)
(* 1. A markup document is a record of the three node lists the selectors  *)
(* of the code look at.                                                    *)
(***************************************************************************)
EXTENDS Integers, Sequences, FiniteSets, TLC

VARIABLES
    pc,                    \* position of the driving script
    pokemon_url_suffixes,  \* self.pokemon_url_suffixes
    soup,                  \* self.soup: <<>> (None) or <<document>>
    pokemon_dict_data,     \* self.pokemon_dict_data: ordered list of [k, v]
    dataframe,             \* self.dataframe
    idx,                   \* entries of the for loop already completed
    err,                   \* the uncaught exception that ended the script
    store,                 \* the destination table of the database
    connections,           \* database connections opened so far
    fetched,               \* history: every requests.get, with its answer
    appended               \* history: the mapping at each build_database

vars == <<pc, pokemon_url_suffixes, soup, pokemon_dict_data, dataframe, idx,
          err, store, connections, fetched, appended>>

----------------------------------------------------------------------------
(* Bounds of the model *)

MaxAnchors == 2
MaxAppends == 3
MaxFrameRows == 2
MaxSaves == 2

----------------------------------------------------------------------------
(* Text *)

\* the characters for which str.isspace() holds
Whitespace ==
    { "\t", "\n", "U+000B", "\f", "\r", "U+001C", "U+001D", "U+001E", "U+001F",
      " ", "U+0085", "U+00A0", "U+1680", "U+2000", "U+2001", "U+2002", "U+2003",
      "U+2004", "U+2005", "U+2006", "U+2007", "U+2008", "U+2009", "U+200A",
      "U+2028", "U+2029", "U+202F", "U+205F", "U+3000" }

Range(s) == {s[i] : i \in 1..Len(s)}

RECURSIVE LStrip(_)
LStrip(s) ==
    IF s = <<>> THEN <<>>
    ELSE IF Head(s) \in Whitespace THEN LStrip(Tail(s)) ELSE s

RECURSIVE RStrip(_)
RStrip(s) ==
    IF s = <<>> THEN <<>>
    ELSE IF s[Len(s)] \in Whitespace THEN RStrip(SubSeq(s, 1, Len(s) - 1)) ELSE s

\* str.strip()
Strip(s) == RStrip(LStrip(s))

RECURSIVE Join(_, _)
Join(pieces, sep) ==
    IF pieces = <<>> THEN <<>>
    ELSE IF Len(pieces) = 1 THEN pieces[1]
    ELSE pieces[1] \o sep \o Join(Tail(pieces), sep)

\* Tag.get_text(sep, strip=True): every text node of the element is stripped,
\* the ones left empty are dropped, the others are joined with sep.
GetText(strings, sep) ==
    LET stripped == [i \in 1..Len(strings) |-> Strip(strings[i])]
        NonEmpty(s) == s /= <<>>
    IN  Join(SelectSeq(stripped, NonEmpty), sep)

----------------------------------------------------------------------------
(* Ordered mappings (Python dict) *)

EmptyDict == <<>>

DictKeys(d) == {d[i].k : i \in 1..Len(d)}

DictGet(d, key) == d[CHOOSE i \in 1..Len(d) : d[i].k = key].v

\* d[key] = value: an existing key keeps its position
DictSet(d, key, value) ==
    IF key \in DictKeys(d)
    THEN [i \in 1..Len(d) |-> IF d[i].k = key THEN [k |-> key, v |-> value] ELSE d[i]]
    ELSE Append(d, [k |-> key, v |-> value])

\* d.update(other)
RECURSIVE DictUpdate(_, _)
DictUpdate(d, other) ==
    IF other = <<>> THEN d
    ELSE DictUpdate(DictSet(d, Head(other).k, Head(other).v), Tail(other))

----------------------------------------------------------------------------
(* Methods of PokemonScraping as operators *)

\* "https://pokemondb.net/pokedex/national"
NationalUrl ==
    <<"h", "t", "t", "p", "s", ":", "/", "/", "p", "o", "k", "e", "m", "o", "n", "d", "b", ".", "n", "e", "t",
       "/", "p", "o", "k", "e", "d", "e", "x", "/", "n", "a", "t", "i", "o", "n", "a", "l">>

\* "Pokemon Name"
NameKey == <<"P", "o", "k", "e", "m", "o", "n", " ", "N", "a", "m", "e">>

\* "https://pokemondb.net"
Origin ==
    <<"h", "t", "t", "p", "s", ":", "/", "/", "p", "o", "k", "e", "m", "o", "n", "d", "b", ".", "n", "e", "t">>

\* build_pokemon_url: the concatenation of the origin and the suffix
BuildPokemonUrl(pokemon_suffix) == Origin \o pokemon_suffix

\* mutant of SelectCards: the selector matches every anchor of the page
SelectAllAnchors(doc) == doc.anchors

\* soup.select("div.infocard > span.infocard-lg-img > a")
SelectCards(doc) ==
    LET IsCard(a) == a.card
    IN  SelectSeq(doc.anchors, IsCard)

\* tag["href"] raises KeyError on an anchor without the attribute
GetUrlsFails(doc) == \E i \in 1..Len(SelectCards(doc)) : SelectCards(doc)[i].href = <<>>

\* [tag["href"] for tag in tags]
GetUrlsLinks(doc) ==
    LET tags == SelectCards(doc)
    IN  [i \in 1..Len(tags) |-> tags[i].href[1]]

\* tr.find(name): the first cell of the row with that tag name, or None
Find(tr, name) ==
    LET Is(c) == c.tag = name
        hits == SelectSeq(tr, Is)
    IN  IF hits = <<>> THEN <<>> ELSE <<hits[1]>>

\* get_table_dict, the loop over the rows, from the mapping built so far
RECURSIVE TableRows(_, _)
TableRows(data, trs) ==
    IF trs = <<>> THEN data
    ELSE LET th == Find(Head(trs), "th")
             td == Find(Head(trs), "td")
         IN  IF th /= <<>> /\ td /= <<>>
             THEN TableRows(DictSet(data, GetText(th[1].strings, <<>>),
                                          GetText(td[1].strings, <<" ">>)),
                            Tail(trs))
             ELSE TableRows(data, Tail(trs))

GetTableDict(table) == TableRows(EmptyDict, table.trs)

\* soup.select('[id^="tab-basic-"] table')
SelectBasicTables(doc) ==
    LET IsBasic(t) == t.basic
    IN  SelectSeq(doc.tables, IsBasic)

\* mutant of SelectName: a missing heading is replaced by an empty one
SelectNameLenient(doc) == IF doc.h1 = <<>> THEN << [strings |-> <<>>] >> ELSE <<doc.h1[1]>>

\* soup.select_one("#main > h1")
SelectName(doc) == IF doc.h1 = <<>> THEN <<>> ELSE <<doc.h1[1]>>

\* for table in tables: self.pokemon_dict_data.update(get_table_dict(table))
RECURSIVE UpdateFromTables(_, _)
UpdateFromTables(d, tables) ==
    IF tables = <<>> THEN d
    ELSE UpdateFromTables(DictUpdate(d, GetTableDict(Head(tables))), Tail(tables))

\* pokemon_name.get_text(strip=True) raises AttributeError when pokemon_name is None
GetPokemonDataFails(doc) == SelectName(doc) = <<>>

\* get_pokemon_data after the fetch: the mapping it leaves in self.pokemon_dict_data
GetPokemonData(d, doc) ==
    UpdateFromTables(DictSet(d, NameKey, GetText(SelectName(doc)[1].strings, <<>>)),
                     SelectBasicTables(doc))

----------------------------------------------------------------------------
(* pandas *)

NaN == <<>>

NoFrame == [isNone |-> TRUE, columns |-> <<>>, rows |-> <<>>]

\* pd.DataFrame([d]): one row, the columns are the keys in order
RowFrame(d) ==
    [isNone |-> FALSE,
     columns |-> [i \in 1..Len(d) |-> d[i].k],
     rows |-> << [i \in 1..Len(d) |-> <<d[i].v>>] >>]

\* the value of row r of frame f in column c, NaN where f has no such column
FrameCell(f, r, c) ==
    IF c \in Range(f.columns)
    THEN f.rows[r][CHOOSE i \in 1..Len(f.columns) : f.columns[i] = c]
    ELSE NaN

\* mutant of Concat: join="inner", only the columns both frames have
ConcatInner(df, row) ==
    LET IsShared(c) == c \in Range(row.columns)
        cols == SelectSeq(df.columns, IsShared)
        Reindex(f) == [r \in 1..Len(f.rows) |->
                          [j \in 1..Len(cols) |-> FrameCell(f, r, cols[j])]]
    IN  [isNone |-> FALSE, columns |-> cols, rows |-> Reindex(df) \o Reindex(row)]

\* mutant of Concat: the rows are views of the one shared mapping, so every
\* row shows what the mapping holds now
ConcatAliased(df, row) ==
    LET IsNew(c) == c \notin Range(df.columns)
        cols == df.columns \o SelectSeq(row.columns, IsNew)
    IN  [isNone |-> FALSE, columns |-> cols,
         rows |-> [r \in 1..(Len(df.rows) + 1) |->
                      [j \in 1..Len(cols) |-> FrameCell(row, 1, cols[j])]]]

\* pd.concat([df, row], ignore_index=True): outer join of the columns in order
\* of appearance, the rows of df followed by the rows of row
Concat(df, row) ==
    LET IsNew(c) == c \notin Range(df.columns)
        cols == df.columns \o SelectSeq(row.columns, IsNew)
        Reindex(f) == [r \in 1..Len(f.rows) |->
                          [j \in 1..Len(cols) |-> FrameCell(f, r, cols[j])]]
    IN  [isNone |-> FALSE, columns |-> cols, rows |-> Reindex(df) \o Reindex(row)]

\* build_database: the new value of self.dataframe
BuildDatabaseFrame(df, d) ==
    IF df.isNone THEN RowFrame(d) ELSE Concat(df, RowFrame(d))

----------------------------------------------------------------------------
(* The destination table *)

Null == <<>>

NoTable == [exists |-> FALSE, columns |-> <<>>, rows |-> <<>>]

\* a text cell as the database stores it: NaN and the empty string are NULL
SqlCell(c) == IF c = NaN \/ c = << <<>> >> THEN Null ELSE c

\* mutant of DropTable: if_exists="append", the existing table is kept
KeepTable(st) == st

DropTable(st) == NoTable

CreateTable(st, columns) ==
    IF st.exists THEN st ELSE [exists |-> TRUE, columns |-> columns, rows |-> <<>>]

InsertRows(st, rows) ==
    [st EXCEPT !.rows = @ \o [r \in 1..Len(rows) |->
                                 [j \in 1..Len(rows[r]) |-> SqlCell(rows[r][j])]]]

\* DataFrame.to_sql(name, con, if_exists="replace", index=False)
ToSql(st, df) ==
    InsertRows(CreateTable(IF st.exists THEN DropTable(st) ELSE st, df.columns), df.rows)

\* save_dataframe_to_oracle raises ValueError before it reads conn
SaveFails(df) == df.isNone

----------------------------------------------------------------------------
(* The documents the site can answer with *)

SeqsUpTo(S, n) == UNION {[1..k -> S] : k \in 0..n}

Doc(anchors, h1, tables) == [anchors |-> anchors, h1 |-> h1, tables |-> tables]

Anchor(card, href) == [card |-> card, href |-> href]

Cell(tag, strings) == [tag |-> tag, strings |-> strings]

Table(basic, trs) == [basic |-> basic, trs |-> trs]

\* <a> elements of a listing page: two entity cards, a card that links to the
\* listing page itself, a link outside any card, and a card anchor that has no
\* href attribute
AnchorKinds ==
    { Anchor(TRUE, << <<"/", "p", "o", "k", "e", "d", "e", "x", "/", "1">> >>),
      Anchor(TRUE, << <<"/", "p", "o", "k", "e", "d", "e", "x", "/", "2">> >>),
      Anchor(TRUE, << <<"/", "p", "o", "k", "e", "d", "e", "x", "/", "n", "a", "t", "i", "o", "n", "a", "l">> >>),
      Anchor(FALSE, << <<"/", "p", "o", "k", "e", "d", "e", "x", "/", "3">> >>),
      Anchor(TRUE, <<>>) }

ListingDocs == {Doc(a, <<>>, <<>>) : a \in SeqsUpTo(AnchorKinds, MaxAnchors)}

\* "#main > h1": absent, a no-break space, "Bulbasaur", "\n\tIvysaur\r\n"
Headings ==
    { <<>>,
      << [strings |-> << <<"U+00A0">> >>] >>,
      << [strings |-> << <<"B", "u", "l", "b", "a", "s", "a", "u", "r">> >>] >>,
      << [strings |-> << <<"\n", "\t", "I", "v", "y", "s", "a", "u", "r", "\r", "\n">> >>] >> }

\* <tr><th>Type</th><td>...</td></tr>
TypeRow(strings) == << Cell("th", << <<"T", "y", "p", "e">> >>), Cell("td", strings) >>

\* <tr><th>\tSpecies</th><td>...</td></tr>
SpeciesRow(strings) ==
    << Cell("th", << <<"\t", "S", "p", "e", "c", "i", "e", "s">> >>), Cell("td", strings) >>

\* <tr><th>Spe<b>cies </b></th><td>...</td></tr>
SplitSpeciesRow(strings) ==
    << Cell("th", << <<"S", "p", "e">>, <<"c", "i", "e", "s", " ">> >>), Cell("td", strings) >>

\* the tables of a detail page, in document order
TableLists ==
    { <<>>,
      << Table(TRUE, << TypeRow(<< <<"G", "r", "a", "s", "s">>, <<"\n">>, <<"P", "o", "i", "s", "o", "n", " ">> >>),
                        << Cell("th", << <<"H", "t">> >>) >>,
                        << Cell("td", << <<"7">> >>) >> >>) >>,
      << Table(TRUE, << TypeRow(<< <<"F", "i", "r", "e">> >>),
                        SpeciesRow(<< <<"S", "e", "e", "d", " ", "P", "o", "k", "e", "m", "o", "n">> >>) >>),
         Table(FALSE, << << Cell("th", << <<"H", "t">> >>), Cell("td", << <<"7">> >>) >> >>),
         Table(TRUE, << TypeRow(<< <<"W", "a", "t", "e", "r">> >>) >>) >>,
      << Table(TRUE, << SplitSpeciesRow(<< <<"\t", "U+00A0">> >>) >>) >> }

DetailDocs == {Doc(<<>>, h, t) : h \in Headings, t \in TableLists}

\* what the destination table can hold before the run
PriorStores ==
    { NoTable,
      [exists |-> TRUE, columns |-> <<NameKey>>, rows |-> << << << <<"O", "l", "d">> >> >> >>] }

----------------------------------------------------------------------------
(* The __main__ script: run_scraping, then save_dataframe_to_oracle *)

Init ==
    /\ pc = "start"
    /\ pokemon_url_suffixes = <<>>
    /\ soup = <<>>
    /\ pokemon_dict_data = EmptyDict
    /\ dataframe = NoFrame
    /\ idx = 0
    /\ err = ""
    /\ store \in PriorStores
    /\ connections = 0
    /\ fetched = <<>>
    /\ appended = <<>>

\* the script has no try/except: an exception ends it
Uncaught == "failed"

\* mutant of ForLoopHasNext: the loop stops one entry early
ForLoopSkipsLast(i, suffixes) == i < Len(suffixes) - 1

\* for pokemon_url_suffix in self.pokemon_url_suffixes
ForLoopHasNext(i, suffixes) == i < Len(suffixes)

\* get_urls: fetch the listing page, collect the href of every card anchor
GetUrls ==
    /\ pc = "start"
    /\ \E doc \in ListingDocs :
        /\ soup' = <<doc>>
        /\ fetched' = Append(fetched, [url |-> NationalUrl, doc |-> doc])
        /\ IF GetUrlsFails(doc)
           THEN /\ pc' = Uncaught
                /\ err' = "KeyError"
                /\ UNCHANGED pokemon_url_suffixes
           ELSE /\ pc' = "loop"
                /\ pokemon_url_suffixes' = GetUrlsLinks(doc)
                /\ UNCHANGED err
    /\ UNCHANGED <<pokemon_dict_data, dataframe, idx, store, connections, appended>>

\* get_pokemon_data, first half: build the url and fetch the page
FetchPokemonPage ==
    /\ pc = "loop"
    /\ ForLoopHasNext(idx, pokemon_url_suffixes)
    /\ \E doc \in DetailDocs :
        /\ soup' = <<doc>>
        /\ fetched' = Append(fetched,
              [url |-> BuildPokemonUrl(pokemon_url_suffixes[idx + 1]), doc |-> doc])
    /\ pc' = "extract"
    /\ UNCHANGED <<pokemon_url_suffixes, pokemon_dict_data, dataframe, idx, err,
                   store, connections, appended>>

\* get_pokemon_data, second half: the name and the tables into the mapping
ExtractPokemonData ==
    /\ pc = "extract"
    /\ IF GetPokemonDataFails(soup[1])
       THEN /\ pc' = Uncaught
            /\ err' = "AttributeError"
            /\ UNCHANGED pokemon_dict_data
       ELSE /\ pc' = "build"
            /\ pokemon_dict_data' = GetPokemonData(pokemon_dict_data, soup[1])
            /\ UNCHANGED err
    /\ UNCHANGED <<pokemon_url_suffixes, soup, dataframe, idx, store, connections,
                   fetched, appended>>

\* build_database, and the loop moves on
BuildDatabase ==
    /\ pc = "build"
    /\ dataframe' = BuildDatabaseFrame(dataframe, pokemon_dict_data)
    /\ appended' = Append(appended, pokemon_dict_data)
    /\ idx' = idx + 1
    /\ pc' = "loop"
    /\ UNCHANGED <<pokemon_url_suffixes, soup, pokemon_dict_data, err, store,
                   connections, fetched>>

\* save_dataframe_to_oracle(connection)
Save(next) ==
    IF SaveFails(dataframe)
    THEN /\ pc' = Uncaught
         /\ err' = "ValueError"
         /\ UNCHANGED <<store, connections>>
    ELSE /\ pc' = next
         /\ connections' = connections + 1
         /\ store' = ToSql(store, dataframe)
         /\ UNCHANGED err

\* run_scraping has returned: the script saves and ends
SaveDataframeToOracle ==
    /\ pc = "loop"
    /\ ~ForLoopHasNext(idx, pokemon_url_suffixes)
    /\ Save("done")
    /\ UNCHANGED <<pokemon_url_suffixes, soup, pokemon_dict_data, dataframe, idx,
                   fetched, appended>>

Next ==
    \/ GetUrls
    \/ FetchPokemonPage
    \/ ExtractPokemonData
    \/ BuildDatabase
    \/ SaveDataframeToOracle

Spec == Init /\ [][Next]_vars

----------------------------------------------------------------------------
(* build_database called on mappings a fresh extraction can produce *)

RowDicts ==
    {GetPokemonData(EmptyDict, doc) : doc \in {d \in DetailDocs : ~GetPokemonDataFails(d)}}

InitAccum ==
    /\ pc = "accum"
    /\ pokemon_url_suffixes = <<>>
    /\ soup = <<>>
    /\ pokemon_dict_data = EmptyDict
    /\ dataframe = NoFrame
    /\ idx = 0
    /\ err = ""
    /\ store = NoTable
    /\ connections = 0
    /\ fetched = <<>>
    /\ appended = <<>>

\* the caller sets self.pokemon_dict_data, then calls build_database
AccumAppend ==
    /\ pc = "accum"
    /\ Len(appended) < MaxAppends
    /\ \E d \in RowDicts :
        /\ pokemon_dict_data' = d
        /\ dataframe' = BuildDatabaseFrame(dataframe, d)
        /\ appended' = Append(appended, d)
    /\ UNCHANGED <<pc, pokemon_url_suffixes, soup, idx, err, store, connections, fetched>>

NextAccum == AccumAppend

SpecAccum == InitAccum /\ [][NextAccum]_vars

----------------------------------------------------------------------------
(* save_dataframe_to_oracle called on an object constructed with a dataframe *)

RECURSIVE FrameOf(_)
FrameOf(dicts) ==
    IF dicts = <<>> THEN NoFrame
    ELSE BuildDatabaseFrame(FrameOf(SubSeq(dicts, 1, Len(dicts) - 1)), dicts[Len(dicts)])

\* pd.DataFrame(columns=["Pokemon Name"]): a frame that is set and has no rows
ZeroRowFrame == [isNone |-> FALSE, columns |-> <<NameKey>>, rows |-> <<>>]

SinkFrames == {ZeroRowFrame} \cup {FrameOf(ds) : ds \in SeqsUpTo(RowDicts, MaxFrameRows)}

InitSink ==
    /\ pc = "sink"
    /\ pokemon_url_suffixes = <<>>
    /\ soup = <<>>
    /\ pokemon_dict_data = EmptyDict
    /\ dataframe \in SinkFrames
    /\ idx = 0
    /\ err = ""
    /\ store \in PriorStores
    /\ connections = 0
    /\ fetched = <<>>
    /\ appended = <<>>

SinkSave ==
    /\ pc = "sink"
    /\ connections < MaxSaves
    /\ Save("sink")
    /\ UNCHANGED <<pokemon_url_suffixes, soup, pokemon_dict_data, dataframe, idx,
                   fetched, appended>>

NextSink == SinkSave

SpecSink == InitSink /\ [][NextSink]_vars

----------------------------------------------------------------------------
(* Properties *)

\* a cell that holds a value other than the empty string
NonEmptyCell(c) == c /= NaN /\ c /= << <<>> >>

\* the <tr> of the matched tables of doc that have a header cell and a data
\* cell, as pairs <<table position, row position>>
PairRows(doc) ==
    {p \in UNION {{<<t, r>> : r \in 1..Len(doc.tables[t].trs)} : t \in 1..Len(doc.tables)} :
        /\ doc.tables[p[1]].basic
        /\ \E c \in 1..Len(doc.tables[p[1]].trs[p[2]]) :
              doc.tables[p[1]].trs[p[2]][c].tag = "th"
        /\ \E c \in 1..Len(doc.tables[p[1]].trs[p[2]]) :
              doc.tables[p[1]].trs[p[2]][c].tag = "td"}

RowKey(doc, p) == GetText(Find(doc.tables[p[1]].trs[p[2]], "th")[1].strings, <<>>)

RowValue(doc, p) == GetText(Find(doc.tables[p[1]].trs[p[2]], "td")[1].strings, <<" ">>)

\* the attribute keys the page itself supplies
SuppliedKeys(doc) == {RowKey(doc, p) : p \in PairRows(doc)}

Before(p, q) == p[1] < q[1] \/ (p[1] = q[1] /\ p[2] < q[2])

\* "Type"
TypeKey == <<"T", "y", "p", "e">>

\* the mapping a row of the frame was built from holds exactly these cells
RowIsSnapshot(df, j, d) ==
    /\ Len(df.rows[j]) = Len(df.columns)
    /\ \A c \in 1..Len(df.columns) :
          df.rows[j][c] = IF df.columns[c] \in DictKeys(d)
                          THEN <<DictGet(d, df.columns[c])>>
                          ELSE NaN

\* C1: every row of the table holds a non-empty value only under the name key
\* and under keys that the page of its own entity supplies: a key of an earlier
\* entity's page that the entity's page lacks is empty in the entity's row.
C1_FreshMappingPerEntity ==
    \A j \in 1..Len(dataframe.rows) :
        \A c \in 1..Len(dataframe.columns) :
            NonEmptyCell(dataframe.rows[j][c]) =>
                \/ dataframe.columns[c] = NameKey
                \/ dataframe.columns[c] \in SuppliedKeys(fetched[j + 1].doc)

\* C2: after R appends from an unset table the column set is the union of the
\* R key sets, no column is repeated, there are R rows, and row j holds under
\* each column the value of the j-th mapping, or NaN where that mapping had no
\* such key; in every state, so after every append.
C2_ColumnUnion ==
    Len(appended) >= 1 =>
        /\ ~dataframe.isNone
        /\ Range(dataframe.columns) = UNION {DictKeys(appended[j]) : j \in 1..Len(appended)}
        /\ Cardinality(Range(dataframe.columns)) = Len(dataframe.columns)
        /\ Len(dataframe.rows) = Len(appended)
        /\ \A j \in 1..Len(appended) : RowIsSnapshot(dataframe, j, appended[j])

\* C2 witness: three rows, an earlier one lacking a key of a later one and a
\* later one lacking a key of an earlier one
C2_Witness ==
    /\ pc = "accum"
    /\ Len(appended) = 3
    /\ \E j \in 1..3 : \E k \in (j + 1)..3 :
          /\ DictKeys(appended[j]) \ DictKeys(appended[k]) /= {}
          /\ DictKeys(appended[k]) \ DictKeys(appended[j]) /= {}

\* C3: a detail page without the heading is the last page fetched and is never
\* extracted; the script ends there with the AttributeError, with exactly the
\* rows of the entities before it, no connection opened, the destination as it
\* was, and no further step.
C3_MissingHeadingAborts ==
    /\ \A k \in 2..Len(fetched) :
          fetched[k].doc.h1 = <<>> =>
              /\ k = Len(fetched)
              /\ pc \in {"extract", "failed"}
              /\ pc = "failed" => err = "AttributeError"
    /\ (pc = "failed" /\ err = "AttributeError") =>
          /\ fetched[Len(fetched)].doc.h1 = <<>>
          /\ Len(fetched) = idx + 2
          /\ Len(dataframe.rows) = idx
          /\ Len(appended) = idx
          /\ connections = 0
          /\ store \in PriorStores
          /\ ~ENABLED Next

\* C3 witness: the second entity's page lacks the heading after the first
\* entity was extracted and accumulated
C3_Witness ==
    /\ pc = "failed"
    /\ err = "AttributeError"
    /\ Len(fetched) = 3
    /\ fetched[3].doc.h1 = <<>>
    /\ Len(dataframe.rows) = 1
    /\ Len(pokemon_url_suffixes) = 2

\* C4: a table with zero rows, unset or set, is never written: no connection is
\* opened for it and the destination stays as it was.
C4_ZeroRowsNeverPersisted ==
    (dataframe.isNone \/ dataframe.rows = <<>>) =>
        /\ connections = 0
        /\ store \in PriorStores

\* C5: every row of the table has a non-empty value under "Pokemon Name".
C5_NameNeverEmpty ==
    \A j \in 1..Len(dataframe.rows) :
        NonEmptyCell(FrameCell(dataframe, j, NameKey))

\* C6: when every card anchor of the listing page has a link target, get_urls
\* does not fail and leaves one link per card anchor, the link of the i-th card
\* anchor in document order at position i, repeated targets kept.
C6_ListingLinks ==
    pc /= "start" =>
        LET anchors == fetched[1].doc.anchors
            cards == {p \in 1..Len(anchors) : anchors[p].card}
        IN  (\A p \in cards : anchors[p].href /= <<>>) =>
                /\ ~(pc = "failed" /\ err = "KeyError")
                /\ Len(pokemon_url_suffixes) = Cardinality(cards)
                /\ \A p \in cards :
                      pokemon_url_suffixes[Cardinality({q \in cards : q <= p})]
                          = anchors[p].href[1]

\* C6 witness: get_urls has returned on a page whose two card anchors have the
\* same target
C6_Witness ==
    /\ pc = "loop"
    /\ idx = 0
    /\ Len(fetched[1].doc.anchors) = 2
    /\ Len(pokemon_url_suffixes) = 2
    /\ pokemon_url_suffixes[1] = pokemon_url_suffixes[2]

\* C7: after the extraction of a page the mapping has exactly the M keys of the
\* page's header/data rows plus the name key, and under each key the value of
\* the last such row in document order.
C7_ExactlyMPlusOneKeys ==
    pc = "build" =>
        LET doc == soup[1]
        IN  /\ DictKeys(pokemon_dict_data) = SuppliedKeys(doc) \cup {NameKey}
            /\ Len(pokemon_dict_data) = Cardinality(SuppliedKeys(doc)) + 1
            /\ \A p \in PairRows(doc) :
                  (\A q \in PairRows(doc) :
                        RowKey(doc, q) = RowKey(doc, p) => ~Before(p, q))
                  => DictGet(pokemon_dict_data, RowKey(doc, p)) = RowValue(doc, p)

\* C8: the listing page is fetched first and the link list is taken from it
\* once (it stays the list of that page's card anchors, also when a link leads
\* back to the listing url); the k-th later fetch is the page of the k-th
\* link; fetches, extractions and appends advance one entity at a time; the
\* sink connects at most once, only when every link has been accumulated, and
\* no step follows it.
C8_RunOrder ==
    /\ pc = "start" => fetched = <<>> /\ pokemon_url_suffixes = <<>>
    /\ pc /= "start" => Len(fetched) >= 1 /\ fetched[1].url = NationalUrl
    /\ (pc /= "start" /\ err /= "KeyError") =>
          Len(pokemon_url_suffixes)
              = Cardinality({p \in 1..Len(fetched[1].doc.anchors) :
                                fetched[1].doc.anchors[p].card})
    /\ \A k \in 2..Len(fetched) :
          /\ k - 1 <= Len(pokemon_url_suffixes)
          /\ fetched[k].url = BuildPokemonUrl(pokemon_url_suffixes[k - 1])
    /\ Len(fetched) = (IF pc = "start" THEN 0 ELSE 1) + idx
          + (IF pc \in {"extract", "build"} \/ (pc = "failed" /\ err = "AttributeError")
             THEN 1 ELSE 0)
    /\ Len(appended) = idx
    /\ Len(dataframe.rows) = idx
    /\ connections <= 1
    /\ connections = 1 => pc = "done" /\ idx = Len(pokemon_url_suffixes)
    /\ pc = "done" => connections = 1 /\ ~ENABLED Next

\* C8 witness: a run over two entities that ended in the sink, the second
\* link leading back to the listing url
C8_Witness ==
    /\ pc = "done"
    /\ idx = 2
    /\ Len(fetched) = 3
    /\ fetched[3].url = NationalUrl
    /\ connections = 1

\* C9: after one successful save and after two, the destination holds exactly
\* the columns and the rows of the (non-empty) table, NaN and "" as NULL,
\* whatever it held before.
C9_PersistIdempotent ==
    (connections >= 1 /\ dataframe.rows /= <<>>) =>
        /\ store.exists
        /\ store.columns = dataframe.columns
        /\ Len(store.rows) = Len(dataframe.rows)
        /\ \A r \in 1..Len(dataframe.rows) :
              /\ Len(store.rows[r]) = Len(dataframe.columns)
              /\ \A j \in 1..Len(dataframe.columns) :
                    store.rows[r][j] = IF NonEmptyCell(dataframe.rows[r][j])
                                       THEN dataframe.rows[r][j]
                                       ELSE Null

\* C9 witness: the second save of a two-row table over a destination that had
\* a row of its own before
C9_Witness ==
    /\ pc = "sink"
    /\ connections = 2
    /\ Len(dataframe.rows) = 2
    /\ Len(dataframe.columns) = 3
    /\ Len(store.rows) = 2

\* C10: the table is unset until the first append and has one row per
\* accumulated entity; row j was fetched from the j-th link, carries the name of
\* that page and holds exactly the mapping as it was at the j-th append, NaN
\* under the columns added later, whatever was extracted or appended since.
C10_RowsAreSnapshots ==
    /\ dataframe.isNone <=> idx = 0
    /\ Len(dataframe.rows) = idx
    /\ Len(appended) = idx
    /\ \A j \in 1..Len(dataframe.rows) :
          /\ fetched[j + 1].url = BuildPokemonUrl(pokemon_url_suffixes[j])
          /\ FrameCell(dataframe, j, NameKey)
                = <<GetText(fetched[j + 1].doc.h1[1].strings, <<>>)>>
          /\ RowIsSnapshot(dataframe, j, appended[j])

\* C10 witness: after the first append the second entity was extracted into the
\* shared mapping, changing a value the first row holds, and the second append
\* added a column that the first row lacks
C10_Witness ==
    /\ idx = 2
    /\ Len(dataframe.columns) > Len(appended[1])
    /\ TypeKey \in DictKeys(appended[1])
    /\ DictGet(appended[2], TypeKey) /= DictGet(appended[1], TypeKey)
    /\ DictGet(appended[2], NameKey) /= DictGet(appended[1], NameKey)

====
